---- MODULE Spec2Model ----
(***************************************************************************)
(* Crypto-Market-Dashboard (src/main.py): the market-data pipeline.        *)
(*                                                                         *)
(*   fetch_with_retry      bounded retry around one upstream call          *)
(*   get_active_symbols    memoized (flask_caching, SimpleCache) universe  *)
(*   analyze_symbol        one per-symbol unit: candle fetch + indicators  *)
(*   update_dashboard      the refresh cycle: universe, fan-out, fan-in    *)
(*                                                                         *)
(* Seven specifications share the definitions:                             *)
(*   SpecRetry  fetch_with_retry alone, max_retries and delay drawn from   *)
(*              bounded sets, the wrapped operation's outcome free at      *)
(*              every invocation;                                          *)
(*   SpecRefresh  one refresh of get_active_symbols on an empty cache,     *)
(*              with the provider's answers kept beside the result;        *)
(*   Spec       the refresh cycles of update_dashboard against a provider  *)
(*              whose answers are free, with a wall clock;                 *)
(*   SpecServer the callback run by one server thread per client;          *)
(*   SpecAnalyze  analyze_symbol on one symbol, candle series of every     *)
(*              length and shape;                                          *)
(*   SpecOrder  the fan-out over universes in every order, units ending    *)
(*              in any order;                                              *)
(*   SpecPool   the fan-out over universes larger than the worker pool.    *)
(***************************************************************************)
EXTENDS Integers, Sequences, FiniteSets, TLC

VARIABLES
    rf,         \* SpecRetry: the frame of one fetch_with_retry call
    now,        \* wall clock, seconds
    cache,      \* the memoized entry of get_active_symbols (SimpleCache)
    pc,         \* position of the update_dashboard callback
    gas,        \* the running / last get_active_symbols call
    fetch,      \* frame of the fetch_with_retry call made by get_active_symbols
    markets,    \* local 'markets' of get_active_symbols
    symbols,    \* local 'symbols' of update_dashboard
    units,      \* one record per work item of executor.map
    snapshot,   \* valid_data handed to create_dashboard
    page,       \* what create_dashboard returned to the callback
    finished,   \* SpecOrder: the work items in the order they finished
    obs,        \* SpecRefresh: the provider's answers the refresh filtered
    srv         \* SpecServer: the request threads of the server; the running
                \* thread's callback is in pc .. finished, the others' are
                \* parked here

vars ==
    <<rf, now, cache, pc, gas, fetch, markets, symbols, units, snapshot, page,
      finished, obs, srv>>

(***************************************************************************)
(* Configuration (src/main.py lines 16-21) and literals of the code.       *)
(***************************************************************************)
MAX_WORKERS == 12
MIN_VOLUME == 2500000
CACHE_TIMEOUT == 55
\* defaults of fetch_with_retry(method, max_retries=3, delay=1)
DEFAULT_MAX_RETRIES == 3
DEFAULT_DELAY == 1
\* analyze_symbol: len(ohlcv) < 50, iloc[-24], iloc[-42*4], limit=168
MIN_CANDLES == 50
RSI_PERIOD == 14
OFFSET_24H == 24
OFFSET_7D == 168
OHLCV_LIMIT == 168

(***************************************************************************)
(* Bounds of the model.                                                    *)
(***************************************************************************)
MaxRetriesArg == 4      \* SpecRetry draws max_retries from 0..MaxRetriesArg
MaxDelayArg == 2        \* SpecRetry draws delay from 0..MaxDelayArg
MaxTime == 110          \* the clock stops advancing here
\* SYMBOL_LIMIT (line 20) is 100 in the source; the model caps the universe at
\* fewer symbols than the provider lists in USDT, so that the cap cuts.
SYMBOL_LIMIT == 2
\* SpecPool: the universe has up to MAX_WORKERS + PoolExtra symbols
PoolExtra == 1
\* SpecServer: the requests the server handles at a time
Clients == 2

(***************************************************************************)
(* Exceptions.  The except clause of fetch_with_retry names three classes; *)
(* every other exception passes through it.                                *)
(***************************************************************************)
TransientErrors == {"NetworkError", "ExchangeError", "RequestException"}
OtherErrors == {"ValueError", "KeyError"}
ErrorTypes == TransientErrors \cup OtherErrors

NoError == [type |-> "none"]
Error(t) == [type |-> t]
NoValue == [tag |-> "none"]

\* what one invocation of the wrapped operation does
OkOutcome(v) == [kind |-> "ok", err |-> NoError, val |-> v]
ErrOutcome(t) == [kind |-> "error", err |-> Error(t), val |-> NoValue]

IsTransient(err) == err.type \in TransientErrors

Min(a, b) == IF a <= b THEN a ELSE b

(***************************************************************************)
(* fetch_with_retry (lines 37-46).  A frame is the state of one call:      *)
(*   i       the loop variable of 'for i in range(max_retries)'            *)
(*   status  running | returned | raised                                   *)
(*   value   the returned value (NoValue stands for None)                  *)
(*   error   the exception that left the call                              *)
(*   trace   what the call did, in order: [ev |-> "call", n |-> attempt]   *)
(*           for method(), [ev |-> "sleep", n |-> seconds] for time.sleep  *)
(*   outs    the outcome of each invocation of method(), in order          *)
(***************************************************************************)
CallEv(n) == [ev |-> "call", n |-> n]
SleepEv(d) == [ev |-> "sleep", n |-> d]

\* line 38: range(max_retries) is empty for max_retries <= 0, and the loop
\* falls through to 'return None' (line 46)
StartFetch(max_retries, delay) ==
    [max_retries |-> max_retries, delay |-> delay, i |-> 0,
     status |-> IF max_retries <= 0 THEN "returned" ELSE "running",
     value |-> NoValue, error |-> NoError, trace |-> <<>>, outs |-> <<>>]

\* line 40: return method()
ReturnsNone(out) == NoValue
Returns(out) == out.val

\* line 41: the exceptions the except clause catches
CaughtAll(err) == TRUE
Caught(err) == IsTransient(err)

\* line 42: another attempt follows
RetryAgainWrong(f) == f.i < f.max_retries
RetryAgain(f) == f.i < f.max_retries - 1

\* line 43: time.sleep(delay * (i + 1))
BackoffConst(f) == f.delay
Backoff(f) == f.delay * (f.i + 1)

\* line 45: a bare 'raise' re-raises the exception being handled
ReraisedWrapped(err) == [type |-> "ProviderUnavailable", cause |-> err]
Reraised(err) == err

\* one iteration of the loop body (lines 39-45)
Attempt(f, out) ==
    LET called == [f EXCEPT !.trace = Append(@, CallEv(f.i + 1)),
                            !.outs = Append(@, out)]
    IN  IF out.kind = "ok"
        THEN [called EXCEPT !.status = "returned", !.value = Returns(out)]
        ELSE IF Caught(out.err)
        THEN IF RetryAgain(f)
             THEN [called EXCEPT !.i = @ + 1,
                                 !.trace = Append(@, SleepEv(Backoff(f))),
                                 !.status = IF f.i + 1 < f.max_retries
                                            THEN "running" ELSE "returned"]
             ELSE [called EXCEPT !.status = "raised",
                                 !.error = Reraised(out.err)]
        ELSE [called EXCEPT !.status = "raised", !.error = out.err]

(***************************************************************************)
(* The provider (ccxt.binance).  A symbol is base/quote; the directory     *)
(* returned by load_markets maps a listed symbol to its 'active' flag; a   *)
(* ticker carries 'symbol' and 'quoteVolume', which ccxt leaves None when  *)
(* the exchange does not report it.                                        *)
(***************************************************************************)
Sym(b, q) == [base |-> b, quote |-> q]
AAA == Sym("AAA", "USDT")
BBB == Sym("BBB", "USDT")
CCC == Sym("CCC", "USDT")
DDD == Sym("DDD", "BTC")
Symbols == {AAA, BBB, CCC, DDD}
\* the order of tickers.values()
TickerOrder == <<AAA, BBB, CCC, DDD>>

MarketStates == {"active", "inactive", "unlisted"}
\* the directories the provider answers with: CCC/USDT is always listed and
\* active; DDD/BTC, which the filter never looks up, is listed or not
MarketDirs ==
    {m \in [Symbols -> MarketStates] : m[CCC] = "active" /\ m[DDD] # "inactive"}

NoneVolume == -1    \* stands for quoteVolume = None
Volumes == {NoneVolume, MIN_VOLUME, MIN_VOLUME + 1, MIN_VOLUME + 2}
Ticker(s, v) == [symbol |-> s, quoteVolume |-> v]
TickerSets ==
    {[i \in 1..Len(TickerOrder) |-> Ticker(TickerOrder[i], v[TickerOrder[i]])] :
        v \in {w \in [Symbols -> Volumes] : w[DDD] = MIN_VOLUME + 2}}

\* candles returned by fetch_ohlcv(symbol, TIMEFRAME, limit=168): n rows whose
\* closes are all equal (flat), grow by one per bucket (rising), or cannot be
\* read as numbers (malformed)
BucketCounts == {10, MIN_CANDLES - 1, MIN_CANDLES, OFFSET_7D - 1, OFFSET_7D}
SeriesKinds == {"flat", "rising", "malformed"}
AllKinds == SeriesKinds \cup {"falling", "zigzag"}
Series(n, k) == [tag |-> "ohlcv", n |-> n, kind |-> k]
FullCount == OHLCV_LIMIT
SeriesSet ==
    {Series(n, "flat") : n \in BucketCounts}
        \cup {Series(FullCount, k) : k \in SeriesKinds}

\* the exceptions the provider raises in a refresh cycle: one that the
\* except clause of fetch_with_retry catches and one that it does not
ProviderErrors == {"NetworkError", "ValueError"}

MarketOutcomes ==
    {OkOutcome([tag |-> "markets", m |-> m]) : m \in MarketDirs}
        \cup {ErrOutcome(t) : t \in ProviderErrors}
TickerOutcomes ==
    {OkOutcome([tag |-> "tickers", t |-> t]) : t \in TickerSets}
        \cup {ErrOutcome(t) : t \in ProviderErrors}
OhlcvOutcomes ==
    {OkOutcome(s) : s \in SeriesSet} \cup {ErrOutcome(t) : t \in ProviderErrors}

(***************************************************************************)
(* get_active_symbols, the body (lines 52-68).                             *)
(***************************************************************************)
\* t['symbol'].endswith('/USDT')
EndsWithUSDT(s) == s.quote = "USDT"

\* line 56-57: markets[t['symbol']] raises KeyError for an unlisted symbol;
\* 'and' does not evaluate it for a symbol that is not quoted in USDT
UsdtRaises(m, tickers) ==
    \E i \in 1..Len(tickers) :
        EndsWithUSDT(tickers[i].symbol) /\ m[tickers[i].symbol] = "unlisted"
UsdtTickers(m, tickers) ==
    SelectSeq(tickers,
              LAMBDA t : EndsWithUSDT(t.symbol) /\ m[t.symbol] = "active")

\* line 60: t.get('quoteVolume', 0) > MIN_VOLUME; None > int raises TypeError
VolumeRaises(usdt) ==
    \E i \in 1..Len(usdt) : usdt[i].quoteVolume = NoneVolume
AboveMinInclusive(t) == t.quoteVolume >= MIN_VOLUME
AboveMin(t) == t.quoteVolume > MIN_VOLUME

\* line 59-61: sorted(..., key=quoteVolume, reverse=True), a stable sort:
\* insert each ticker behind those whose volume is not smaller
RECURSIVE InsertDesc(_, _)
InsertDesc(sorted, t) ==
    IF sorted = <<>> THEN <<t>>
    ELSE IF Head(sorted).quoteVolume >= t.quoteVolume
         THEN <<Head(sorted)>> \o InsertDesc(Tail(sorted), t)
         ELSE <<t>> \o sorted
RECURSIVE SortDescFrom(_, _)
SortDescFrom(acc, rest) ==
    IF rest = <<>> THEN acc
    ELSE SortDescFrom(InsertDesc(acc, Head(rest)), Tail(rest))
SortDesc(seq) == SortDescFrom(<<>>, seq)

\* line 62: [:SYMBOL_LIMIT]
Truncate(seq) == SubSeq(seq, 1, Min(Len(seq), SYMBOL_LIMIT))

\* lines 56-64, when nothing raises
VolumeFiltered(m, tickers) ==
    Truncate(SortDesc(SelectSeq(UsdtTickers(m, tickers), AboveMin)))
SymbolsOf(ts) == [i \in 1..Len(ts) |-> ts[i].symbol]

\* lines 56-64: the list, or the exception of the comprehension that raised
FilterTickers(m, tickers) ==
    IF UsdtRaises(m, tickers)
    THEN [raised |-> Error("KeyError"), list |-> <<>>]
    ELSE IF VolumeRaises(UsdtTickers(m, tickers))
    THEN [raised |-> Error("TypeError"), list |-> <<>>]
    ELSE [raised |-> NoError, list |-> SymbolsOf(VolumeFiltered(m, tickers))]

\* lines 66-68: 'except Exception' returns []; c is the cache entry, which
\* the handler does not read
StaleOnError(err, c) == [raised |-> NoError, list |-> c.value]
OnRefreshError(err, c) == [raised |-> NoError, list |-> <<>>]

(***************************************************************************)
(* @cache.memoize(timeout=CACHE_TIMEOUT) over SimpleCache (lines 25, 50).  *)
(* set stores the value with expires = time() + timeout; get returns it    *)
(* while expires > time(); what it returns counts as found unless it is    *)
(* None, so that an empty list is served like any other.  storedAt and     *)
(* origin are history fields: the time of the set and the way the call     *)
(* that stored the entry left the body (refreshed | failed).               *)
(***************************************************************************)
NoEntry ==
    [present |-> FALSE, value |-> <<>>, expires |-> 0, storedAt |-> 0,
     origin |-> "none"]
ExpiryInclusive(c, t) == c.present /\ c.expires >= t
CacheHitNonEmpty(c, t) == c.present /\ c.expires > t /\ c.value # <<>>
CacheHit(c, t) == c.present /\ c.expires > t
CacheSetEntry(v, t, origin) ==
    [present |-> TRUE, value |-> v, expires |-> t + CACHE_TIMEOUT,
     storedAt |-> t, origin |-> origin]

(***************************************************************************)
(* analyze_symbol (lines 87-114).                                          *)
(***************************************************************************)
NoResult == [tag |-> "none"]    \* None

\* closes.iloc[j - 1] of a readable series, j in 1..n
Close(series, j) ==
    CASE series.kind = "rising" -> 100 + j
      [] series.kind = "falling" -> 300 - j
      [] series.kind = "zigzag" -> 100 + (j % 2)
      [] OTHER -> 100

\* floating-point values: a number that is known, a number of which only the
\* interval it lies in (ends excluded) is known, and NaN
Num(v) == [kind |-> "num", v |-> v]
Within(lo, hi) == [kind |-> "within", lo |-> lo, hi |-> hi]
Positive == [kind |-> "positive"]
NaN == [kind |-> "nan"]

\* vectorized_rsi (lines 73-82).  delta = series.diff() is NaN at the first
\* index, where gain and loss are 0; gain and loss are never negative, and
\* ewm(alpha=1/period, adjust=False).mean() is y[1] = x[1],
\* y[t] = (1 - alpha) * y[t-1] + alpha * x[t] with 0 < alpha < 1, so that its
\* last value is 0 when every x is 0 and positive otherwise.
HasGain(series) ==
    \E j \in 2..series.n : Close(series, j) > Close(series, j - 1)
HasLoss(series) ==
    \E j \in 2..series.n : Close(series, j) < Close(series, j - 1)
EwmLast(some) == IF some /\ RSI_PERIOD > 1 THEN "positive" ELSE "zero"

\* line 81: avg_gain / avg_loss on float64 raises nothing: 0/0 is NaN and
\* x/0 is infinite
Rs(g, l) ==
    CASE g = "zero" /\ l = "zero" -> "nan"
      [] l = "zero" -> "inf"
      [] g = "zero" -> "zero"
      [] OTHER -> "finite"

\* line 82: 100 - (100 / (1 + rs))
RsiOf(rs) ==
    CASE rs = "nan" -> NaN
      [] rs = "inf" -> Num(100)
      [] rs = "zero" -> Num(0)
      [] OTHER -> Within(0, 100)
VectorizedRsi(series) ==
    RsiOf(Rs(EwmLast(HasGain(series)), EwmLast(HasLoss(series))))

\* line 106: closes.pct_change().std() * np.sqrt(365); the standard deviation
\* is 0 when the changes (C[j] - C[j-1]) / C[j-1], j in 2..n, are all equal
SamePctChange(series, j) ==
    (Close(series, j) - Close(series, j - 1)) * Close(series, 1)
        = (Close(series, 2) - Close(series, 1)) * Close(series, j - 1)
Volatility(series) ==
    IF \A j \in 2..series.n : SamePctChange(series, j)
    THEN Num(0) ELSE Positive

\* closes.iloc[-k] raises IndexError when the series has fewer than k rows
IlocWraps(series, k) == FALSE
IlocRaises(series, k) == series.n < k
IlocBack(series, k) == Close(series, series.n - k + 1)

\* (closes.iloc[-1] - closes.iloc[-k]) / closes.iloc[-k] * 100, as the
\* fraction num / den
Change(series, k) ==
    [num |-> (IlocBack(series, 1) - IlocBack(series, k)) * 100,
     den |-> IlocBack(series, k)]

\* closes.rolling(24).min() / .max() at the last index
RollingWindow(series) == {Close(series, j) : j \in (series.n - OFFSET_24H + 1)..series.n}
SetMin(S) == CHOOSE x \in S : \A y \in S : x <= y
SetMax(S) == CHOOSE x \in S : \A y \in S : x >= y

\* symbol.replace('/USDT', '')
StripQuote(symbol) == symbol.base

\* lines 93-111: the exception the computation raises, if any
ComputeError(series) ==
    IF series.kind = "malformed" THEN Error("ValueError")
    ELSE IF IlocRaises(series, OFFSET_24H) \/ IlocRaises(series, OFFSET_7D)
    THEN Error("IndexError")
    ELSE NoError

\* lines 100-111: the fields that are determined by the closes (volume_24h
\* and vwap, which depend on the volumes, are not modelled)
SeriesIndicators(series) ==
    [tag |-> "result",
     price |-> IlocBack(series, 1),
     rsi |-> VectorizedRsi(series),
     change_24h |-> Change(series, OFFSET_24H),
     change_7d |-> Change(series, OFFSET_7D),
     volatility |-> Volatility(series),
     support |-> SetMin(RollingWindow(series)),
     resistance |-> SetMax(RollingWindow(series))]
\* the same, computed once for each series
IndicatorTable ==
    [series \in {Series(n, k) : n \in 0..OHLCV_LIMIT, k \in AllKinds}
        |-> SeriesIndicators(series)]
Indicators(symbol, series) ==
    [f \in DOMAIN IndicatorTable[series] \cup {"symbol"} |->
        IF f = "symbol" THEN StripQuote(symbol) ELSE IndicatorTable[series][f]]

\* line 90: if len(ohlcv) < 50
TooFewNever(series) == FALSE
TooFew(series) == series.n < MIN_CANDLES

\* lines 112-114: 'except Exception' returns None
UnitRaises(err) ==
    [result |-> NoResult, exc |-> err, caught |-> NoError, line |-> 0]
UnitCatch(err) ==
    [result |-> NoResult, exc |-> NoError, caught |-> err, line |-> 114]

\* the whole unit, given the finished frame f of its fetch_with_retry call:
\* the value analyze_symbol returns, the exception that leaves it, the
\* exception its handler caught and the line of the return statement
AnalyzeSymbol(symbol, f) ==
    IF f.status = "raised" THEN UnitCatch(f.error)
    ELSE IF f.value = NoValue THEN UnitCatch(Error("TypeError"))
    ELSE IF TooFew(f.value)
    THEN [result |-> NoResult, exc |-> NoError, caught |-> NoError, line |-> 91]
    ELSE IF ComputeError(f.value) # NoError THEN UnitCatch(ComputeError(f.value))
    ELSE [result |-> Indicators(symbol, f.value), exc |-> NoError,
          caught |-> NoError, line |-> 100]

(***************************************************************************)
(* update_dashboard (lines 359-365) and its work items.                    *)
(***************************************************************************)
IdleFrame == StartFetch(0, 0)
NoFetched == [status |-> "none", value |-> NoValue, error |-> NoError]
Fetched(f) == [status |-> f.status, value |-> f.value, error |-> f.error]

\* executor.map(analyze_symbol, symbols) submits one work item per symbol
NewUnit(symbol) ==
    [symbol |-> symbol, st |-> "pending", frame |-> IdleFrame, runs |-> 0,
     fetched |-> NoFetched, result |-> NoResult, exc |-> NoError,
     caught |-> NoError, line |-> 0]
SubmitAll(syms) == [k \in 1..Len(syms) |-> NewUnit(syms[k])]

Running == {k \in 1..Len(units) : units[k].st = "running"}
\* list(executor.map(...)) takes the result of every work item, waiting for
\* it, and the 'with' block ends with executor.shutdown(wait=True)
NonePending == \A k \in 1..Len(units) : units[k].st # "pending"
AllDone == \A k \in 1..Len(units) : units[k].st = "done"

\* list(executor.map(...)): the results in the order of submission; the
\* iteration re-raises the exception of the first work item that raised
ResultsAsCompleted == [j \in 1..Len(finished) |-> units[finished[j]].result]
Results == [k \in 1..Len(units) |-> units[k].result]
FirstRaised ==
    IF \E k \in 1..Len(units) : units[k].exc # NoError
    THEN units[CHOOSE k \in 1..Len(units) :
                   /\ units[k].exc # NoError
                   /\ \A j \in 1..(k - 1) : units[j].exc = NoError].exc
    ELSE NoError

\* line 363: [r for r in results if r is not None]
KeepAll(results) == results
ValidData(results) == SelectSeq(results, LAMBDA r : r # NoResult)

\* the local 'markets' before load_markets has returned
NoMarkets == [s \in Symbols |-> "unlisted"]

\* one call of get_active_symbols:
\*   path           hit | refresh (running) | refreshed | failed | raised
\*   load_markets, fetch_tickers   upstream calls issued so far
\*   lookupAt, seen the time of the memoize lookup and, on a hit, the entry
\*   rv             what the body returned
\*   cause          the exception the body caught (printed at line 67)
\*   raised         the exception that left the body
NoCall ==
    [path |-> "none", load_markets |-> 0, fetch_tickers |-> 0,
     lookupAt |-> 0, seen |-> NoEntry, rv |-> <<>>, cause |-> NoError,
     raised |-> NoError]

NoObs == [m |-> NoMarkets, t |-> <<>>]

\* what the callback has before create_dashboard returns
NoStats == [defined |-> FALSE]
NoPage == [kind |-> "none", stats |-> NoStats]

\* create_dashboard (lines 116-131).  a < b for the percent changes, which
\* are fractions with positive denominators
FracLess(a, b) == a.num * b.den < b.num * a.den
\* df[field].idxmax() / idxmin(): the first row that holds the extreme value
IdxMax(data, field) ==
    CHOOSE i \in 1..Len(data) :
        /\ \A j \in 1..Len(data) : ~FracLess(data[i][field], data[j][field])
        /\ \A j \in 1..(i - 1) : FracLess(data[j][field], data[i][field])
IdxMin(data, field) ==
    CHOOSE i \in 1..Len(data) :
        /\ \A j \in 1..Len(data) : ~FracLess(data[j][field], data[i][field])
        /\ \A j \in 1..(i - 1) : FracLess(data[i][field], data[j][field])
\* lines 122-131, the entries that name a symbol
Stats(data) ==
    [defined |-> TRUE,
     top_gainer_24h |-> data[IdxMax(data, "change_24h")].symbol,
     top_loser_24h |-> data[IdxMin(data, "change_24h")].symbol,
     top_gainer_7d |-> data[IdxMax(data, "change_7d")].symbol,
     top_loser_7d |-> data[IdxMin(data, "change_7d")].symbol]

\* line 117: the rows of the frame, [d for d in data if d is not None]
Rows(data) == SelectSeq(data, LAMBDA d : d # NoResult)

\* lines 118-119: an empty frame gives an empty figure and no stats; without
\* the test, df['volume_24h'] of the frame without columns raises KeyError
CreateDashboardUnguarded(data) ==
    IF Rows(data) = <<>>
    THEN [kind |-> "raised", stats |-> NoStats]
    ELSE [kind |-> "layout", stats |-> Stats(Rows(data))]
CreateDashboard(data) ==
    IF Rows(data) = <<>>
    THEN [kind |-> "figure", stats |-> NoStats]
    ELSE [kind |-> "layout", stats |-> Stats(Rows(data))]

\* the locals of one update_dashboard callback, as they are kept for a request
\* thread that is not running
IdleLocals ==
    [pc |-> "idle", gas |-> NoCall, fetch |-> IdleFrame, markets |-> NoMarkets,
     symbols |-> <<>>, units |-> <<>>, snapshot |-> <<>>, page |-> NoPage,
     finished |-> <<>>]

\* the request threads: the development server that app.run_server starts
\* (line 468) handles every request in a thread of its own
Handlers == 1..Clients
NoParked == [cur |-> 1, parked |-> [h \in Handlers |-> IdleLocals]]

(***************************************************************************)
(* Initial state: nothing cached, no callback running.                     *)
(***************************************************************************)
InitPipeline ==
    /\ now = 0
    /\ cache = NoEntry
    /\ pc = "idle"
    /\ gas = NoCall
    /\ fetch = IdleFrame
    /\ markets = NoMarkets
    /\ symbols = <<>>
    /\ units = <<>>
    /\ snapshot = <<>>
    /\ page = NoPage
    /\ finished = <<>>
    /\ obs = NoObs
    /\ srv = NoParked

pipelineVars ==
    <<now, cache, pc, gas, fetch, markets, symbols, units, snapshot, page,
      finished, obs, srv>>

Init ==
    /\ rf = IdleFrame
    /\ InitPipeline

(***************************************************************************)
(* SpecRetry: one call fetch_with_retry(method, max_retries, delay).       *)
(***************************************************************************)
RetryValues == {[tag |-> "val", v |-> 1], [tag |-> "val", v |-> 2]}
RetryOutcomes ==
    {OkOutcome(v) : v \in RetryValues} \cup {ErrOutcome(t) : t \in ErrorTypes}

InitRetry ==
    /\ \E n \in 0..MaxRetriesArg, d \in 0..MaxDelayArg : rf = StartFetch(n, d)
    /\ InitPipeline

\* one iteration of the loop: method() and what follows it
RetryAttempt ==
    /\ rf.status = "running"
    /\ \E out \in RetryOutcomes : rf' = Attempt(rf, out)
    /\ UNCHANGED pipelineVars

NextRetry == RetryAttempt

SpecRetry == InitRetry /\ [][NextRetry]_vars

(***************************************************************************)
(* Spec: the refresh cycles.                                               *)
(***************************************************************************)
\* the environment: the wall clock advances.  A time.sleep of fetch_with_retry
\* is an event of the call's trace; the time it takes is part of the time
\* that passes here.  Only the memoize wrapper reads
\* the clock, at the lookup and at the set: time that passes during the
\* refresh is taken before the set, time that passes while the work items run
\* is taken once the callback is over (a tick commutes with their steps).
TickSteps == {CACHE_TIMEOUT - 1, CACHE_TIMEOUT}
Tick ==
    /\ pc \in {"idle", "cache_set"}
    /\ \E d \in TickSteps : now + d <= MaxTime /\ now' = now + d
    /\ UNCHANGED <<rf, cache, pc, gas, fetch, markets, symbols, units, snapshot,
                   page, finished, obs, srv>>

\* the refresh trigger fires (dcc.Interval): update_dashboard starts and calls
\* get_active_symbols, whose memoize wrapper looks the entry up
Trigger ==
    /\ pc = "idle"
    /\ IF CacheHit(cache, now)
       THEN /\ gas' = [NoCall EXCEPT !.path = "hit", !.lookupAt = now,
                                     !.seen = cache, !.rv = cache.value]
            /\ symbols' = cache.value
            /\ units' = SubmitAll(cache.value)
            /\ fetch' = IdleFrame
            /\ pc' = "map"
       ELSE /\ gas' = [NoCall EXCEPT !.path = "refresh", !.lookupAt = now]
            /\ symbols' = <<>>
            /\ units' = <<>>
            /\ fetch' = StartFetch(DEFAULT_MAX_RETRIES, DEFAULT_DELAY)
            /\ pc' = "load_markets"
    /\ UNCHANGED <<rf, now, cache, markets, snapshot, page, finished, obs, srv>>

\* line 53: one attempt of fetch_with_retry(lambda: exchange.load_markets())
\* the body is left: by r.raised, which ends the callback, or with r.list,
\* which goes to the memoize wrapper; g is the call so far
Leave(g, r, path) ==
    /\ fetch' = IdleFrame
    /\ IF r.raised # NoError
       THEN /\ pc' = "raised"
            /\ gas' = [g EXCEPT !.path = "raised", !.raised = r.raised]
       ELSE /\ pc' = "cache_set"
            /\ gas' = [g EXCEPT !.path = path, !.rv = r.list]

\* lines 66-68 entered with the exception err
Handle(g, err) ==
    Leave([g EXCEPT !.cause = err], OnRefreshError(err, cache), "failed")

LoadMarketsStep(outs) ==
    /\ pc = "load_markets"
    /\ \E out \in outs :
         LET f == Attempt(fetch, out)
             called == [gas EXCEPT !.load_markets = @ + 1]
         IN  CASE f.status = "running" ->
                    /\ fetch' = f
                    /\ gas' = called
                    /\ UNCHANGED <<pc, markets>>
               [] f.status = "returned" ->
                    /\ fetch' = StartFetch(DEFAULT_MAX_RETRIES, DEFAULT_DELAY)
                    /\ gas' = called
                    /\ markets' = f.value.m
                    /\ pc' = "fetch_tickers"
               [] f.status = "raised" ->
                    /\ Handle(called, f.error)
                    /\ UNCHANGED markets
    /\ UNCHANGED <<rf, now, cache, symbols, units, snapshot, page, finished, obs,
                   srv>>

LoadMarketsAttempt == LoadMarketsStep(MarketOutcomes)

\* lines 54-64: one attempt of fetch_with_retry(lambda: exchange.fetch_tickers())
\* and, once it returns, the filtering.  With observe, the answers that were
\* filtered are kept in obs.
FetchTickersStep(observe, outs) ==
    /\ pc = "fetch_tickers"
    /\ \E out \in outs :
         LET f == Attempt(fetch, out)
             called == [gas EXCEPT !.fetch_tickers = @ + 1]
         IN  CASE f.status = "running" ->
                    /\ fetch' = f
                    /\ gas' = called
                    /\ UNCHANGED <<pc, markets, obs>>
               [] f.status = "returned" ->
                    LET r == FilterTickers(markets, f.value.t)
                    IN  /\ IF r.raised # NoError
                           THEN Handle(called, r.raised)
                           ELSE Leave(called, r, "refreshed")
                        /\ markets' = NoMarkets
                        /\ obs' = IF observe
                                  THEN [m |-> markets, t |-> f.value.t]
                                  ELSE obs
               [] f.status = "raised" ->
                    /\ Handle(called, f.error)
                    /\ markets' = NoMarkets
                    /\ UNCHANGED obs
    /\ UNCHANGED <<rf, now, cache, symbols, units, snapshot, page, finished, srv>>

FetchTickersAttempt == FetchTickersStep(FALSE, TickerOutcomes)
FetchTickersObserved == FetchTickersStep(TRUE, TickerOutcomes)

\* the memoize wrapper stores what the body returned and returns it; line 362
\* submits the work items
CacheSet ==
    /\ pc = "cache_set"
    /\ cache' = CacheSetEntry(gas.rv, now, gas.path)
    /\ gas' = [NoCall EXCEPT !.path = gas.path, !.rv = gas.rv]
    /\ symbols' = gas.rv
    /\ units' = SubmitAll(gas.rv)
    /\ pc' = "map"
    /\ UNCHANGED <<rf, now, fetch, markets, snapshot, page, finished, obs, srv>>

\* line 361: ThreadPoolExecutor(max_workers=MAX_WORKERS) has at most
\* MAX_WORKERS threads, each running one work item at a time
WorkerAlways == TRUE
WorkerAvailable == Cardinality(Running) < MAX_WORKERS

\* a worker of the pool takes the next work item of the queue
UnitStart(k) ==
    /\ pc = "map"
    /\ units[k].st = "pending"
    /\ \A j \in 1..(k - 1) : units[j].st # "pending"
    /\ WorkerAvailable
    /\ units' = [units EXCEPT ![k].st = "running",
                              ![k].runs = @ + 1,
                              ![k].frame = StartFetch(DEFAULT_MAX_RETRIES,
                                                      DEFAULT_DELAY)]
    /\ UNCHANGED <<rf, now, cache, pc, gas, fetch, markets, symbols, snapshot,
                   page, finished, obs, srv>>

\* line 89: one attempt of fetch_with_retry(lambda: exchange.fetch_ohlcv(...))
\* and, once the call is over, the rest of analyze_symbol; outs is what the
\* provider can answer.  With observe, the order in which the work items
\* finish is kept in finished.
UnitStep(k, outs, observe) ==
    /\ pc = "map"
    /\ units[k].st = "running"
    /\ \E out \in outs :
         \E f \in {Attempt(units[k].frame, out)} :
             IF f.status = "running"
             THEN /\ units' = [units EXCEPT ![k].frame = f]
                  /\ UNCHANGED finished
             ELSE \E a \in {AnalyzeSymbol(units[k].symbol, f)} :
                  /\ units' = [units EXCEPT ![k].st = "done",
                                            ![k].frame = IdleFrame,
                                            ![k].fetched = Fetched(f),
                                            ![k].result = a.result,
                                            ![k].exc = a.exc,
                                            ![k].caught = a.caught,
                                            ![k].line = a.line]
                  /\ finished' = IF observe THEN Append(finished, k)
                                            ELSE finished
    /\ UNCHANGED <<rf, now, cache, pc, gas, fetch, markets, symbols, snapshot,
                   page, obs, srv>>

\* lines 362-365: every work item is over; the results are collected and
\* filtered, create_dashboard is called on them, and the callback returns
Assemble ==
    /\ pc = "map"
    /\ AllDone
    /\ IF FirstRaised # NoError
       THEN /\ pc' = "raised"
            /\ UNCHANGED <<snapshot, page>>
       ELSE \E d \in {CreateDashboard(ValidData(Results))} :
            /\ snapshot' = ValidData(Results)
            /\ page' = d
            /\ pc' = IF d.kind = "raised" THEN "raised" ELSE "returned"
    /\ UNCHANGED <<rf, now, cache, gas, fetch, markets, symbols, units,
                   finished, obs, srv>>

\* the callback is over: its locals are gone
Respond ==
    /\ pc \in {"returned", "raised"}
    /\ pc' = "idle"
    /\ gas' = NoCall
    /\ fetch' = IdleFrame
    /\ markets' = NoMarkets
    /\ symbols' = <<>>
    /\ units' = <<>>
    /\ snapshot' = <<>>
    /\ page' = NoPage
    /\ finished' = <<>>
    /\ UNCHANGED <<rf, now, cache, obs, srv>>

UnitAttempt(k) == UnitStep(k, OhlcvOutcomes, FALSE)

Next ==
    \/ Tick
    \/ Trigger
    \/ LoadMarketsAttempt
    \/ FetchTickersAttempt
    \/ CacheSet
    \/ \E k \in 1..Len(units) : UnitStart(k)
    \/ \E k \in 1..Len(units) : UnitAttempt(k)
    \/ Assemble
    \/ Respond

Spec == Init /\ [][Next]_vars

(***************************************************************************)
(* SpecServer: the callback under the server of line 468.  The interval    *)
(* component (line 351) of every open page posts a request each            *)
(* REFRESH_INTERVAL, whether or not an earlier request has been answered,  *)
(* and the server runs update_dashboard for each request in a thread of    *)
(* its own; the code takes no lock and keeps no in-flight flag.  The       *)
(* threads share the cache and the clock.  The provider lists every symbol *)
(* as active and answers the ticker and candle requests in a few ways.     *)
(***************************************************************************)
Locals ==
    [pc |-> pc, gas |-> gas, fetch |-> fetch, markets |-> markets,
     symbols |-> symbols, units |-> units, snapshot |-> snapshot,
     page |-> page, finished |-> finished]
LocalsOf(h) == IF h = srv.cur THEN Locals ELSE srv.parked[h]

\* the interpreter switches from the running thread to request thread h
Switch(h) ==
    /\ h \in Handlers
    /\ h # srv.cur
    /\ srv' = [cur |-> h,
               parked |-> [srv.parked EXCEPT ![srv.cur] = Locals,
                                             ![h] = IdleLocals]]
    /\ pc' = srv.parked[h].pc
    /\ gas' = srv.parked[h].gas
    /\ fetch' = srv.parked[h].fetch
    /\ markets' = srv.parked[h].markets
    /\ symbols' = srv.parked[h].symbols
    /\ units' = srv.parked[h].units
    /\ snapshot' = srv.parked[h].snapshot
    /\ page' = srv.parked[h].page
    /\ finished' = srv.parked[h].finished
    /\ UNCHANGED <<rf, now, cache, obs>>

AllActive == [s \in Symbols |-> "active"]
OneAbove(s) ==
    [i \in 1..Len(TickerOrder) |->
        Ticker(TickerOrder[i],
               IF TickerOrder[i] = s THEN MIN_VOLUME + 1 ELSE MIN_VOLUME)]
SrvMarketOutcomes == {OkOutcome([tag |-> "markets", m |-> AllActive])}
SrvTickerOutcomes ==
    {OkOutcome([tag |-> "tickers", t |-> OneAbove(s)]) : s \in {AAA, BBB}}
        \cup {ErrOutcome("ValueError")}
SrvOhlcvOutcomes ==
    {OkOutcome(Series(FullCount, "flat")), ErrOutcome("ValueError")}

SrvLoadMarkets == LoadMarketsStep(SrvMarketOutcomes)
SrvFetchTickers == FetchTickersStep(FALSE, SrvTickerOutcomes)
SrvUnitAttempt(k) == UnitStep(k, SrvOhlcvOutcomes, FALSE)

NextServer ==
    \/ Tick
    \/ Trigger
    \/ SrvLoadMarkets
    \/ SrvFetchTickers
    \/ CacheSet
    \/ \E k \in 1..Len(units) : UnitStart(k)
    \/ \E k \in 1..Len(units) : SrvUnitAttempt(k)
    \/ Assemble
    \/ Respond
    \/ \E h \in Handlers : Switch(h)

SpecServer == Init /\ [][NextServer]_vars

(***************************************************************************)
(* SpecRefresh: the first call of get_active_symbols, up to the value its  *)
(* body returns.                                                           *)
(***************************************************************************)
NextRefresh ==
    \/ Trigger
    \/ LoadMarketsAttempt
    \/ FetchTickersObserved

SpecRefresh == Init /\ [][NextRefresh]_vars

(***************************************************************************)
(* The fetch/analysis stage on its own: the state in which line 362 has    *)
(* submitted the work items of a universe that the first refresh returned. *)
(***************************************************************************)
MapStage(universe) ==
    /\ rf = IdleFrame
    /\ now = 0
    /\ cache = CacheSetEntry(universe, 0, "refreshed")
    /\ pc = "map"
    /\ gas = [NoCall EXCEPT !.path = "refreshed", !.rv = universe]
    /\ fetch = IdleFrame
    /\ markets = NoMarkets
    /\ symbols = universe
    /\ units = SubmitAll(universe)
    /\ snapshot = <<>>
    /\ page = NoPage
    /\ finished = <<>>
    /\ obs = NoObs
    /\ srv = NoParked

(***************************************************************************)
(* SpecAnalyze: analyze_symbol on every series the provider can return for *)
(* limit=168: one work item, whose candle fetch returns at once.           *)
(***************************************************************************)
AnalyzeOutcomes ==
    {OkOutcome(Series(n, k)) : n \in 0..OHLCV_LIMIT, k \in AllKinds}

InitAnalyze == MapStage(<<AAA>>)

AnalyzeAttempt == UnitStep(1, AnalyzeOutcomes, FALSE)

NextAnalyze ==
    \/ UnitStart(1)
    \/ AnalyzeAttempt
    \/ Assemble

SpecAnalyze == InitAnalyze /\ [][NextAnalyze]_vars

(***************************************************************************)
(* SpecOrder: the fetch/analysis stage over universes of up to three       *)
(* symbols in any order, with the order in which the work items finish     *)
(* kept beside them.                                                       *)
(***************************************************************************)
OrderUniverses ==
    {u \in UNION {[1..n -> {AAA, BBB, CCC}] : n \in 0..3} :
        \A i, j \in DOMAIN u : u[i] = u[j] => i = j}
OrderOutcomes ==
    {OkOutcome(Series(FullCount, "flat")), OkOutcome(Series(10, "flat")),
     ErrOutcome("ValueError"), ErrOutcome("NetworkError")}

InitOrder == \E u \in OrderUniverses : MapStage(u)

OrderAttempt(k) == UnitStep(k, OrderOutcomes, TRUE)

NextOrder ==
    \/ \E k \in 1..Len(units) : UnitStart(k)
    \/ \E k \in 1..Len(units) : OrderAttempt(k)
    \/ Assemble

SpecOrder == InitOrder /\ [][NextOrder]_vars

(***************************************************************************)
(* SpecPool: the worker pool under a universe larger than the pool (the    *)
(* source allows up to 100 symbols).  Every candle fetch answers at once   *)
(* with a full flat series.                                                *)
(***************************************************************************)
PoolSymbol(k) == Sym(ToString(k), "USDT")
PoolUniverse(n) == [k \in 1..n |-> PoolSymbol(k)]
PoolOutcomes == {OkOutcome(Series(FullCount, "flat"))}

InitPool == \E n \in 0..(MAX_WORKERS + PoolExtra) : MapStage(PoolUniverse(n))

PoolAttempt(k) == UnitStep(k, PoolOutcomes, FALSE)

NextPool ==
    \/ \E k \in 1..Len(units) : UnitStart(k)
    \/ \E k \in 1..Len(units) : PoolAttempt(k)
    \/ Assemble

SpecPool == InitPool /\ [][NextPool]_vars

(***************************************************************************)
(* Properties of fetch_with_retry, checked under SpecRetry.                *)
(***************************************************************************)
Calls(f) == Cardinality({j \in 1..Len(f.trace) : f.trace[j].ev = "call"})
Sleeps(f) == Cardinality({j \in 1..Len(f.trace) : f.trace[j].ev = "sleep"})
FailsTransiently(out) == out.kind = "error" /\ out.err.type \in TransientErrors
FailsOtherwise(out) == out.kind = "error" /\ out.err.type \notin TransientErrors
AllTransient(f) == \A k \in 1..Len(f.outs) : FailsTransiently(f.outs[k])

\* C1: when every invocation of the operation fails with a transient error
\* and max_retries = N >= 1, the call never returns, never invokes the
\* operation more than N times, and is over, by raising, exactly when the
\* operation has been invoked N times.
C1_ExhaustsAfterMaxRetries ==
    (rf.max_retries >= 1 /\ AllTransient(rf)) =>
        /\ Calls(rf) <= rf.max_retries
        /\ Len(rf.outs) = Calls(rf)
        /\ rf.status # "returned"
        /\ (rf.status = "raised") <=> (Calls(rf) = rf.max_retries)
        /\ (rf.status = "running") <=> (Calls(rf) < rf.max_retries)

C1_Witness ==
    /\ rf.max_retries = 3
    /\ Len(rf.outs) = 3
    /\ AllTransient(rf)
    /\ rf.status = "raised"
    /\ Calls(rf) = 3

C3_NonTransientPropagates ==
    \A k \in 1..Len(rf.outs) :
        FailsOtherwise(rf.outs[k]) =>
            /\ k = Len(rf.outs)
            /\ Calls(rf) = k
            /\ rf.trace[Len(rf.trace)] = CallEv(k)
            /\ rf.status = "raised"
            /\ rf.error = rf.outs[k].err

C3_Witness ==
    /\ Len(rf.outs) = 2
    /\ FailsTransiently(rf.outs[1])
    /\ FailsOtherwise(rf.outs[2])
    /\ rf.status = "raised"
    /\ rf.error = Error("ValueError")
    /\ Sleeps(rf) = 1

\* C4: the attempt k that succeeds is the last event of the call: the call
\* returns the value that attempt produced, the operation has been invoked k
\* times, k <= max_retries, the attempts before it failed transiently, and no
\* invocation and no sleep follows.
C4_ReturnsValueOfSuccessfulAttempt ==
    \A k \in 1..Len(rf.outs) :
        rf.outs[k].kind = "ok" =>
            /\ k = Len(rf.outs)
            /\ k <= rf.max_retries
            /\ \A j \in 1..(k - 1) : FailsTransiently(rf.outs[j])
            /\ Calls(rf) = k
            /\ rf.trace[Len(rf.trace)] = CallEv(k)
            /\ rf.status = "returned"
            /\ rf.value = rf.outs[k].val

C4_Witness ==
    /\ rf.max_retries = 3
    /\ Len(rf.outs) = 3
    /\ FailsTransiently(rf.outs[1])
    /\ FailsTransiently(rf.outs[2])
    /\ rf.outs[3].kind = "ok"
    /\ rf.status = "returned"
    /\ rf.value = [tag |-> "val", v |-> 2]

\* C5: the call does nothing but invoke the operation and sleep, in turn:
\* attempt 1, sleep delay*1, attempt 2, sleep delay*2, ...  A sleep follows a
\* transiently failed attempt i < max_retries and precedes attempt i + 1; none
\* precedes the first attempt, and the call never ends on a sleep.
C5_LinearBackoffBetweenAttempts ==
    /\ \A j \in 1..Len(rf.trace) :
         IF j % 2 = 1
         THEN rf.trace[j] = CallEv((j + 1) \div 2)
         ELSE /\ rf.trace[j] = SleepEv(rf.delay * (j \div 2))
              /\ FailsTransiently(rf.outs[j \div 2])
              /\ j \div 2 < rf.max_retries
    /\ (rf.status # "running" /\ rf.trace # <<>>) => Len(rf.trace) % 2 = 1
    /\ rf.status = "running" => Len(rf.trace) % 2 = 0
    /\ Sleeps(rf) <= rf.max_retries - 1 \/ rf.trace = <<>>

C5_Witness ==
    /\ rf.delay = 2
    /\ rf.status = "raised"
    /\ rf.trace = <<CallEv(1), SleepEv(2), CallEv(2), SleepEv(4), CallEv(3)>>

(***************************************************************************)
(* Properties of get_active_symbols.                                       *)
(***************************************************************************)
Range(seq) == {seq[i] : i \in 1..Len(seq)}
NoDuplicates(seq) == \A i, j \in 1..Len(seq) : seq[i] = seq[j] => i = j

\* the 24h quote volume the observed tickers report for symbol s
ObservedVolume(s) ==
    obs.t[CHOOSE i \in 1..Len(obs.t) : obs.t[i].symbol = s].quoteVolume
Qualifies(s) ==
    /\ s.quote = "USDT"
    /\ obs.m[s] = "active"
    /\ ObservedVolume(s) > MIN_VOLUME
Qualifying == {s \in Symbols : Qualifies(s)}

\* C6 (SpecRefresh): the list a successful refresh returns has at most
\* SYMBOL_LIMIT symbols, each once, each quoted in USDT, active in the
\* directory and with a volume above MIN_VOLUME; volumes do not increase along
\* the list; a qualifying symbol is left out only when the list is full, and
\* then no listed symbol has a smaller volume than it.
C6_UniverseIsTopVolumeFiltered ==
    (pc = "cache_set" /\ gas.path = "refreshed") =>
        /\ Len(gas.rv) <= SYMBOL_LIMIT
        /\ NoDuplicates(gas.rv)
        /\ \A i \in 1..Len(gas.rv) : Qualifies(gas.rv[i])
        /\ \A i, j \in 1..Len(gas.rv) :
             i < j => ObservedVolume(gas.rv[i]) >= ObservedVolume(gas.rv[j])
        /\ \A s \in Qualifying \ Range(gas.rv) :
             /\ Len(gas.rv) = SYMBOL_LIMIT
             /\ \A i \in 1..Len(gas.rv) :
                  ObservedVolume(gas.rv[i]) >= ObservedVolume(s)

C6_Witness ==
    /\ pc = "cache_set"
    /\ gas.path = "refreshed"
    /\ Cardinality(Qualifying) = 3
    /\ ObservedVolume(CCC) = MIN_VOLUME + 2
    /\ ObservedVolume(AAA) = MIN_VOLUME + 1
    /\ ObservedVolume(BBB) = MIN_VOLUME + 1
    /\ gas.rv = <<CCC, AAA>>

\* the entry c is younger than its time-to-live at time t
Younger(c, t) == c.present /\ t - c.storedAt < CACHE_TIMEOUT
Upstream(g) == g.load_markets + g.fetch_tickers

C8_FailedRefreshReturnsEmpty ==
    /\ gas.path # "raised"
    /\ gas.raised = NoError
    /\ gas.cause # NoError =>
         /\ pc = "cache_set"
         /\ gas.path = "failed"
         /\ gas.rv = <<>>
         /\ Range(gas.rv) \cap Range(cache.value) = {}
    /\ gas.path = "failed" =>
         /\ gas.rv = <<>>
         /\ symbols = <<>>
         /\ units = <<>>

C8_Witness ==
    /\ pc = "cache_set"
    /\ gas.cause = Error("KeyError")
    /\ gas.path = "failed"
    /\ cache.present
    /\ Len(cache.value) = 2
    /\ gas.rv = <<>>

(***************************************************************************)
(* Properties of the refresh cycle.                                        *)
(***************************************************************************)
ResultFields ==
    {"tag", "symbol", "price", "rsi", "change_24h", "change_7d", "volatility",
     "support", "resistance"}

\* the unit's candle fetch returned a readable series long enough for every
\* offset the computation uses
Succeeded(u) ==
    /\ u.fetched.status = "returned"
    /\ u.fetched.value # NoValue
    /\ u.fetched.value.kind # "malformed"
    /\ u.fetched.value.n >= MIN_CANDLES
    /\ u.fetched.value.n >= OFFSET_7D

InSnapshot(u) ==
    \E j \in 1..Len(snapshot) : snapshot[j].symbol = StripQuote(u.symbol)

C10_UnitFailuresAreIsolated ==
    /\ pc # "raised"
    /\ \A k \in 1..Len(units) : units[k].exc = NoError /\ units[k].runs <= 1
    /\ pc = "map" =>
         /\ Len(units) = Len(symbols)
         /\ ENABLED (\/ Assemble
                     \/ \E k \in 1..Len(units) : UnitStart(k) \/ UnitAttempt(k))
    /\ pc = "returned" =>
         /\ Len(units) = Len(symbols)
         /\ \A k \in 1..Len(units) :
              /\ units[k].symbol = symbols[k]
              /\ units[k].st = "done"
              /\ units[k].runs = 1
              /\ units[k].result # NoResult => units[k].result \in Range(snapshot)

C10_Witness ==
    /\ pc = "returned"
    /\ Len(units) = 2
    /\ units[1].fetched.status = "raised"
    /\ units[1].fetched.error = Error("NetworkError")
    /\ units[1].runs = 1
    /\ units[2].runs = 1
    /\ units[2].result # NoResult
    /\ snapshot = <<units[2].result>>

(***************************************************************************)
(* Properties of the worker pool.                                          *)
(***************************************************************************)
Started == {k \in 1..Len(units) : units[k].st # "pending"}
Finished == {k \in 1..Len(units) : units[k].st = "done"}
InFlight == Started \ Finished

\* C11 (SpecPool): whatever the size of the universe, at most MAX_WORKERS
\* units are started and not finished; the units start in the order of the
\* universe; and a unit beyond the first MAX_WORKERS has started only if, for
\* each unit by which it exceeds the bound, another unit has finished.
C11_AtMostMaxWorkersInFlight ==
    /\ Cardinality(InFlight) <= MAX_WORKERS
    /\ \A k \in Started : \A j \in 1..(k - 1) : j \in Started
    /\ \A k \in Started :
         k > MAX_WORKERS => Cardinality(Finished \ {k}) >= k - MAX_WORKERS

C11_Witness ==
    /\ pc = "map"
    /\ Len(units) = MAX_WORKERS + 1
    /\ Cardinality(InFlight) = MAX_WORKERS
    /\ units[MAX_WORKERS + 1].st = "running"
    /\ Finished = {3}

\* C12 (Spec): the snapshot exists only once the callback has collected the
\* results: then every symbol of the universe has its unit, and every unit
\* of the cycle is done; while a unit is pending or running there is no
\* snapshot.
C12_SnapshotOnlyAfterAllUnitsDone ==
    /\ pc = "returned" =>
         /\ Len(units) = Len(symbols)
         /\ \A k \in 1..Len(units) : units[k].st = "done"
    /\ (\E k \in 1..Len(units) : units[k].st \in {"pending", "running"}) =>
         /\ pc = "map"
         /\ snapshot = <<>>
    /\ snapshot # <<>> => pc = "returned"

C12_Witness ==
    /\ pc = "returned"
    /\ Len(units) = 2
    /\ units[1].st = "done"
    /\ units[2].st = "done"
    /\ Len(snapshot) = 2

(***************************************************************************)
(* Properties of the callback under concurrent requests.                   *)
(***************************************************************************)
CyclesInFlight == {h \in Handlers : LocalsOf(h).pc # "idle"}
Refreshing ==
    {h \in Handlers :
        LocalsOf(h).pc \in {"load_markets", "fetch_tickers", "cache_set"}}
WholeEntry(c) == c.present => c.expires = c.storedAt + CACHE_TIMEOUT

\* C13 as stated (SpecServer): at any time at most one execution of
\* update_dashboard is in flight.
C13_CyclesNeverOverlap == Cardinality(CyclesInFlight) <= 1

\* C14 as stated (SpecServer): at any time at most one caller of
\* get_active_symbols is between its failed lookup and its write of the
\* entry, and the entry in the cache, like every entry a caller has read,
\* is one that a single write stored: its list with its own timestamp.
C14_SingleWriterNoTornRead ==
    /\ Cardinality(Refreshing) <= 1
    /\ WholeEntry(cache)
    /\ \A h \in Handlers :
         LocalsOf(h).gas.path = "hit" => WholeEntry(LocalsOf(h).gas.seen)

(***************************************************************************)
(* Properties of analyze_symbol.                                           *)
(***************************************************************************)
Returned(u) == u.st = "done" /\ u.fetched.status = "returned"
Readable(u) == u.fetched.value.kind # "malformed"

\* C16 (SpecAnalyze): a unit whose candle fetch returned fewer than 50
\* buckets, whatever they hold, returns None from the length test of line 91:
\* nothing is computed, so nothing is raised or caught, and the symbol has no
\* entry in the snapshot.
C16_FewerThanMinCandlesIsNull ==
    \A k \in 1..Len(units) :
        (Returned(units[k]) /\ units[k].fetched.value.n < MIN_CANDLES) =>
            /\ units[k].result = NoResult
            /\ units[k].line = 91
            /\ units[k].caught = NoError
            /\ units[k].exc = NoError
            /\ pc = "returned" => snapshot = <<>>

C16_Witness ==
    /\ pc = "returned"
    /\ Len(units) = 1
    /\ units[1].fetched.value = Series(MIN_CANDLES - 1, "malformed")
    /\ units[1].result = NoResult
    /\ units[1].line = 91

IsFlat(series) ==
    /\ series.kind # "malformed"
    /\ \A j \in 2..series.n : Close(series, j) = Close(series, j - 1)
InRange(r) ==
    \/ r.kind = "num" /\ 0 <= r.v /\ r.v <= 100
    \/ r.kind = "within" /\ 0 <= r.lo /\ r.hi <= 100

\* C17 as stated (SpecAnalyze): the result for a flat series has RSI = 100,
\* volatility = 0 and both changes 0; the RSI is 100 whenever the smoothed
\* average loss is 0; and every RSI lies in 0..100.
C17_FlatSeriesRsiIs100 ==
    \A k \in 1..Len(units) :
        units[k].result # NoResult =>
            /\ IsFlat(units[k].fetched.value) =>
                 /\ units[k].result.rsi = Num(100)
                 /\ units[k].result.volatility = Num(0)
                 /\ units[k].result.change_24h.num = 0
                 /\ units[k].result.change_7d.num = 0
            /\ EwmLast(HasLoss(units[k].fetched.value)) = "zero" =>
                 units[k].result.rsi = Num(100)
            /\ InRange(units[k].result.rsi)

C15_EmptyUniverseCycleCompletes ==
    (symbols = <<>> /\ pc \in {"map", "returned", "raised"}) =>
        /\ pc # "raised"
        /\ units = <<>>
        /\ ~ENABLED (\E k \in 1..Len(units) : UnitStart(k) \/ UnitAttempt(k))
        /\ pc = "map" => ENABLED Assemble
        /\ pc = "returned" =>
             /\ snapshot = <<>>
             /\ page.kind = "figure"
             /\ page.stats = NoStats

C15_Witness ==
    /\ pc = "returned"
    /\ gas.path = "failed"
    /\ symbols = <<>>
    /\ snapshot = <<>>
    /\ page.kind = "figure"

UniverseIndex(e) ==
    CHOOSE k \in 1..Len(symbols) : StripQuote(symbols[k]) = e.symbol
SnapshotSymbols == [j \in 1..Len(snapshot) |-> snapshot[j].symbol]

\* C20 (SpecOrder): in the snapshot a cycle returns no symbol appears twice,
\* every entry is the result of the unit of a symbol of the universe, every
\* unit that returned a result has its entry, and of two entries the one
\* whose symbol is earlier in the universe comes first, in whatever order
\* the units finished.
C20_SnapshotFollowsUniverseOrder ==
    pc = "returned" =>
        /\ NoDuplicates(SnapshotSymbols)
        /\ \A j \in 1..Len(snapshot) :
             /\ \E k \in 1..Len(symbols) : StripQuote(symbols[k]) = snapshot[j].symbol
             /\ snapshot[j] = units[UniverseIndex(snapshot[j])].result
        /\ \A k \in 1..Len(units) :
             units[k].result # NoResult => InSnapshot(units[k])
        /\ \A i, j \in 1..Len(snapshot) :
             i < j => UniverseIndex(snapshot[i]) < UniverseIndex(snapshot[j])

C20_Witness ==
    /\ pc = "returned"
    /\ symbols = <<CCC, AAA, BBB>>
    /\ finished = <<3, 2, 1>>
    /\ units[2].result = NoResult
    /\ SnapshotSymbols = <<"CCC", "BBB">>

====
